---- MODULE Spec2Model ----
(***************************************************************************)
(* Model of app/src/main/cpp/llama_jni.cpp: the three JNI entry points     *)
(* loadModelNative, generateNative and unloadModelNative, the process-wide *)
(* globals g_model / g_ctx / model_loaded they share, and the inference    *)
(* engine (llama.cpp) as far as the entry points observe it: handles that  *)
(* are created and freed, the number of tokens held by the context, the    *)
(* status code of each decode and the token each sample returns.           *)
(*                                                                         *)
(* generateNative is cut at its engine calls whose result the engine       *)
(* chooses: GenerateBegin (lines 83-128), Prime (130-173), LoopSample      *)
(* (175-236) and LoopDecode (238-266); the return path (268-283) is part   *)
(* of whichever step leaves the function.  Load and unload are one step    *)
(* each.  Spec is the single caller of spec section 5 (a call returns      *)
(* before the next starts); SpecConc adds a second caller thread whose     *)
(* load and unload run while a generate is in flight.                      *)
(***************************************************************************)
EXTENDS Integers, Sequences, FiniteSets, TLC

\* ------------------------------------------------------------------ bounds
MaxLoads == 2       \* models the engine creates in one run
MaxPieces == 4      \* tokens per session whose text is appended
MaxBad == 1         \* tokens per session whose conversion to text fails
MaxRaces == 1       \* calls the second caller makes while a generate runs

\* ------------------------------------------------------- program constants
DEFAULT_N_CTX == 2048
DEFAULT_N_PREDICT == 128
SAFETY_MARGIN == 10
MAX_REPETITION == 2
MAX_REPEATED_PHRASES == 4
DEFAULT_MAX_RESPONSE_LENGTH == 800
BUF_SIZE == 256
WINDOW_30 == 30
WINDOW_20 == 20
PHRASE_MIN_LENGTH == 100
PHRASE_LENGTH == 15

\* The strings the entry points return (lines 86, 91, 125, 143, 148, 161, 273, 280).
ERR_NOT_LOADED == "Error: Model not loaded. Please load a model first."
ERR_NO_PROMPT == "Error: Failed to get prompt"
ERR_TOKENIZE == "Error: Failed to tokenize prompt"
ERR_CONTEXT_FULL == "Error: Context is full. Prompt is too long. Please reduce the prompt size or increase context window."
ERR_EVAL_PROMPT == "Error: Failed to evaluate prompt"
ERR_PROMPT_TOO_LONG == "Error: Prompt is too long. No room for generation. Please reduce the prompt size."
ERR_EXCEPTION == "Error: Exception during generation: "
ERR_NO_RESPONSE == "Error: No response generated"

\* ------------------------------------------------------------ engine inputs
\* Token counts the tokenizer reports for the prompts tried.
PromptLens == {0, 1, 2036, 2038, 2049}
\* Values of the maxResponseLength argument.
MaxRespInputs == {0, 50}
\* Status codes of llama_decode: 0 success, 1 no KV slot, 2 aborted, < 0 error.
DecodeCodes == {0, 1, 2, -1}

Rep(c, n) == [i \in 1..n |-> c]

RECURSIVE Times(_, _)
Times(s, n) == IF n = 0 THEN <<>> ELSE s \o Times(s, n - 1)

\* Text fragments of the vocabulary used; a character is a one-character string.
T20 == <<"t","h","e"," ","q","u","i","c","k"," ","b","r","o","w","n"," ","f","o","x"," ">>
PHRASE == SubSeq(T20, 6, 20)
A40 == Rep("a", 40)
QT30 == Rep("q", 10) \o T20
TAIL15 == <<"0","1","2","3","4","5","6","7","8","9","A","B","C","D","E">>
\* 255 characters, the longest fragment that fits the buffer: PHRASE four
\* times and an ending that occurs nowhere else.
W4 == Times(Rep("z", 45) \o PHRASE, 4) \o TAIL15

TextTokens == {"A40", "T20", "QT30", "W4"}
\* Tokens whose piece is empty, needs more than the buffer, or fills it exactly.
BadTokens == {"empty", "big", "full"}
EndTokens == {"eos", "eog"}

Piece(tok) ==
    CASE tok = "A40" -> A40
      [] tok = "T20" -> T20
      [] tok = "QT30" -> QT30
      [] tok = "W4" -> W4
      [] OTHER -> <<>>

\* llama_token_to_piece(vocab, tok, buf, sizeof(buf), 0, false): the number of
\* bytes written, or minus the number needed when the buffer is too small.
llama_token_to_piece(tok) ==
    CASE tok \in TextTokens -> Len(Piece(tok))
      [] tok = "empty" -> 0
      [] tok = "big" -> 0 - 300
      [] tok = "full" -> BUF_SIZE
      [] OTHER -> 0

VARIABLES
    g_model, g_ctx, model_loaded,       \* the globals, 0 is nullptr
    modelsCreated, ctxsCreated,         \* handles the engine has handed out
    modelFreed, ctxFreed,               \* per handle, how often it was freed
    kv_used,                            \* tokens held by the live context
    lifeLog,                            \* engine calls of the latest load/unload
    pc,                                 \* where the generate call stands
    vocab,                              \* the model whose vocab generate holds
    n_tokens, n_cur, n_predict,
    response, last_30_chars, last_20_chars,
    repetition_count_30, repetition_count_20,
    maxResponseLength, new_token_id,
    calls,                              \* engine calls of the running session
    ret,                                \* what the latest call returned, if none runs
    ub,                                 \* an engine call got a dead handle
    races                               \* calls made while a generate was running

lifeVars == <<g_model, g_ctx, model_loaded, modelsCreated, ctxsCreated,
              modelFreed, ctxFreed, lifeLog>>
loopVars == <<n_cur, n_predict, response, last_30_chars, last_20_chars,
              repetition_count_30, repetition_count_20, new_token_id>>
sessVars == <<pc, vocab, n_tokens, maxResponseLength, calls, loopVars>>
vars == <<lifeVars, kv_used, sessVars, ret, ub, races>>

\* The engine calls of one session: how often each was made, the largest
\* number of tokens a decode call asked the context to hold (peak) and the
\* status codes the decode calls returned, the priming decode first.
NoCalls == [tokenize |-> 0, clear |-> 0, prime |-> 0, decode |-> 0,
            sample |-> 0, piece |-> 0, bad |-> 0, accept |-> 0,
            peak |-> 0, codes |-> <<>>, smplInit |-> 0, smplFree |-> 0]

Ret(op, ok, err, text, stop, ntok, c, c30, c20) ==
    [op |-> op, ok |-> ok, err |-> err, text |-> text, stop |-> stop,
     ntok |-> ntok, calls |-> c, rep30 |-> c30, rep20 |-> c20]

\* No call has returned yet, or a generate is in flight.
NoRet == Ret("none", TRUE, "", <<>>, "none", 0, NoCalls, 0, 0)

Init ==
    /\ g_model = 0 /\ g_ctx = 0 /\ model_loaded = FALSE
    /\ modelsCreated = 0 /\ ctxsCreated = 0
    /\ modelFreed = [h \in 1..MaxLoads |-> 0]
    /\ ctxFreed = [h \in 1..MaxLoads |-> 0]
    /\ kv_used = 0
    /\ lifeLog = <<>>
    /\ pc = "idle" /\ vocab = 0
    /\ n_tokens = 0 /\ n_cur = 0 /\ n_predict = 0
    /\ response = <<>> /\ last_30_chars = <<>> /\ last_20_chars = <<>>
    /\ repetition_count_30 = 0 /\ repetition_count_20 = 0
    /\ maxResponseLength = 0 /\ new_token_id = "none"
    /\ calls = NoCalls
    /\ ret = NoRet
    /\ ub = FALSE
    /\ races = 0

\* ---------------------------------------------------------------- lifecycle
\* Mutant: the handle is dropped without the engine call that frees it.
FreeIfSet_Leaks(freed, h) == freed

\* if (h != nullptr) { free(h); h = nullptr; } on the engine's release count.
FreeIfSet(freed, h) == IF h # 0 THEN [freed EXCEPT ![h] = @ + 1] ELSE freed

LogCall(name, h) == <<[call |-> name, h |-> h]>>

\* The engine calls of "release the context, then the model, if present".
TeardownLog ==
    (IF g_ctx # 0 THEN LogCall("llama_free", g_ctx) ELSE <<>>)
    \o (IF g_model # 0 THEN LogCall("llama_model_free", g_model) ELSE <<>>)

\* Mutant: ready is set once the model is there, before the context is.
LoadSucceeds_ModelOnly(modelOk, ctxOk) == modelOk

\* Whether line 76 is reached: both engine calls returned a handle.
LoadSucceeds(modelOk, ctxOk) == modelOk /\ ctxOk

\* The jboolean loadModelNative returns (lines 40, 54, 72, 79).
LoadReturn(pathOk, modelOk, ctxOk) == pathOk /\ LoadSucceeds(modelOk, ctxOk)

\* The model's release count after a context creation failure (lines 67-70).
FreeOnCtxFailure(freed, m) == [freed EXCEPT ![m] = @ + 1]

\* loadModelNative(path).  pathOk: GetStringUTFChars returned the path;
\* modelOk: llama_model_load_from_file returned a model; ctxOk:
\* llama_init_from_model returned a context.
LoadModel(pathOk, modelOk, ctxOk) ==
    LET cf == FreeIfSet(ctxFreed, g_ctx)
        mf == FreeIfSet(modelFreed, g_model)
        m == modelsCreated + 1
        c == ctxsCreated + 1
        ok == LoadReturn(pathOk, modelOk, ctxOk)
    IN
    /\ (pathOk /\ modelOk) => modelsCreated < MaxLoads
    /\ ctxFreed' = cf
    /\ kv_used' = 0
    /\ IF ~pathOk
       THEN /\ g_model' = 0 /\ g_ctx' = 0
            /\ modelFreed' = mf
            /\ UNCHANGED <<modelsCreated, ctxsCreated>>
            /\ lifeLog' = TeardownLog
       ELSE IF ~modelOk
       THEN /\ g_model' = 0 /\ g_ctx' = 0
            /\ modelFreed' = mf
            /\ UNCHANGED <<modelsCreated, ctxsCreated>>
            /\ lifeLog' = TeardownLog \o LogCall("llama_model_load_from_file", 0)
       ELSE IF ~ctxOk
       THEN /\ g_model' = 0 /\ g_ctx' = 0
            /\ modelsCreated' = m
            /\ modelFreed' = FreeOnCtxFailure(mf, m)
            /\ UNCHANGED ctxsCreated
            /\ lifeLog' = TeardownLog \o LogCall("llama_model_load_from_file", m)
                          \o LogCall("llama_init_from_model", 0)
                          \o LogCall("llama_model_free", m)
       ELSE /\ g_model' = m /\ g_ctx' = c
            /\ modelsCreated' = m /\ ctxsCreated' = c
            /\ modelFreed' = mf
            /\ lifeLog' = TeardownLog \o LogCall("llama_model_load_from_file", m)
                          \o LogCall("llama_init_from_model", c)
    /\ model_loaded' = ok

\* unloadModelNative().
UnloadModel ==
    /\ ctxFreed' = FreeIfSet(ctxFreed, g_ctx)
    /\ modelFreed' = FreeIfSet(modelFreed, g_model)
    /\ g_ctx' = 0 /\ g_model' = 0
    /\ model_loaded' = FALSE
    /\ kv_used' = 0
    /\ lifeLog' = TeardownLog
    /\ UNCHANGED <<modelsCreated, ctxsCreated>>

\* The single caller: a call starts when the previous one has returned.
Load ==
    /\ pc = "idle"
    /\ \E pathOk, modelOk, ctxOk \in BOOLEAN :
          /\ LoadModel(pathOk, modelOk, ctxOk)
          /\ ret' = Ret("load", LoadReturn(pathOk, modelOk, ctxOk), "", <<>>,
                        "none", 0, NoCalls, 0, 0)
    /\ UNCHANGED <<sessVars, ub, races>>

Unload ==
    /\ pc = "idle"
    /\ UnloadModel
    /\ ret' = Ret("unload", TRUE, "", <<>>, "none", 0, NoCalls, 0, 0)
    /\ UNCHANGED <<sessVars, ub, races>>

\* --------------------------------------------------------- repetition guard
Suffix(s, k) == SubSeq(s, Len(s) - k + 1, Len(s))

Min(S) == CHOOSE x \in S : \A y \in S : x <= y

\* std::string::find(pat, pos) with positions counted from 1; 0 is npos.
Find(s, pat, pos) ==
    LET hits == {i \in pos..(Len(s) - Len(pat) + 1) :
                    s[i] = pat[1] /\ SubSeq(s, i, i + Len(pat) - 1) = pat}
    IN IF hits = {} THEN 0 ELSE Min(hits)

ScanResume_Overlapping(at, pat) == at + 1

\* Where the scan of lines 227-230 resumes after a match at position at.
ScanResume(at, pat) == at + Len(pat)

\* The scan of lines 225-230: phrase_count once find returns npos.
RECURSIVE CountFrom(_, _, _)
CountFrom(s, pat, pos) ==
    LET at == Find(s, pat, pos)
    IN IF at = 0 THEN 0 ELSE 1 + CountFrom(s, pat, ScanResume(at, pat))

PhraseCount(s) == CountFrom(s, Suffix(s, PHRASE_LENGTH), 1)

\* Mutants: the 30-window counter must exceed the limit; the scan resumes one
\* character behind the start of a match, so that occurrences overlap.
Window30Stops_OffByOne(count) == count > MAX_REPETITION

\* Mutant: the 20-window check stops as early as the 30-window check.
Window20Stops_NoTolerance(count) == count >= MAX_REPETITION

\* The conditions of lines 197, 211, 222 and 231.
Window30Stops(count) == count >= MAX_REPETITION
Window20Stops(count) == count >= MAX_REPETITION + 1
PhraseChecked(s) == Len(s) > PHRASE_MIN_LENGTH
PhraseStops(count) == count > MAX_REPEATED_PHRASES

\* Lines 192-235 on the response after an append: which check breaks out of
\* the loop ("none" when none does) and the guard's state as the code leaves it.
RepetitionGuard(resp, l30, l20, c30, c20) ==
    LET chk30 == Len(resp) >= WINDOW_30
        cur30 == Suffix(resp, WINDOW_30)
        eq30 == chk30 /\ cur30 = l30
        c30a == IF ~chk30 THEN c30 ELSE IF eq30 THEN c30 + 1 ELSE 0
        stop30 == eq30 /\ Window30Stops(c30a)
        l30a == IF chk30 /\ ~stop30 THEN cur30 ELSE l30
        chk20 == ~stop30 /\ Len(resp) >= WINDOW_20
        cur20 == Suffix(resp, WINDOW_20)
        eq20 == chk20 /\ cur20 = l20
        c20a == IF ~chk20 THEN c20 ELSE IF eq20 THEN c20 + 1 ELSE 0
        stop20 == eq20 /\ Window20Stops(c20a)
        l20a == IF chk20 /\ ~stop20 THEN cur20 ELSE l20
        stop15 == /\ ~stop30 /\ ~stop20
                  /\ PhraseChecked(resp)
                  /\ PhraseStops(PhraseCount(resp))
    IN [stop |-> IF stop30 THEN "rep30"
                 ELSE IF stop20 THEN "rep20"
                 ELSE IF stop15 THEN "phrase" ELSE "none",
        l30 |-> l30a, l20 |-> l20a, c30 |-> c30a, c20 |-> c20a]

\* ----------------------------------------------------------------- generate
Abs(x) == IF x < 0 THEN 0 - x ELSE x

\* Line 172.
MAX_RESPONSE_LENGTH ==
    IF maxResponseLength > 0 THEN maxResponseLength ELSE DEFAULT_MAX_RESPONSE_LENGTH

\* Lines 155-156.  tokens.size() is a size_t, so the subtraction is done
\* modulo 2^64 and narrowed to int: for every token count below 2^31 that is
\* the signed difference computed here.
NPredict(ntok) ==
    LET max_available == DEFAULT_N_CTX - ntok - SAFETY_MARGIN
    IN IF DEFAULT_N_PREDICT < max_available THEN DEFAULT_N_PREDICT ELSE max_available

\* Line 157.
NoRoom(predict) == predict <= 0

\* Mutant: the loop runs one iteration past the budget.
LoopContinues_Inclusive(cur, ntok, predict) == cur <= ntok + predict

\* Line 175.
LoopContinues(cur, ntok, predict) == cur < ntok + predict

\* Mutant: a fragment that fills the buffer to the last byte is taken.
PieceFits_NoUpperBound(n_chars) == n_chars > 0

\* Mutant: whatever the conversion returns is appended and checked.
PieceFits_Always(n_chars) == TRUE

\* Line 188.
PieceFits(n_chars) == n_chars > 0 /\ n_chars < BUF_SIZE

\* Mutant: the length check ignores the caller's limit.
OverLength_DefaultOnly(resp) == Len(resp) > DEFAULT_MAX_RESPONSE_LENGTH

\* Line 262.
OverLength(resp) == Len(resp) > MAX_RESPONSE_LENGTH

\* Mutant: every failure of the priming decode is reported as context full.
PrimeError_AlwaysFull(code) == ERR_CONTEXT_FULL

\* Lines 138-149: the text returned for a failed priming decode.
PrimeError(code) == IF code = 1 THEN ERR_CONTEXT_FULL ELSE ERR_EVAL_PROMPT

\* Lines 243-255: the branch taken for a failed per-token decode.
DecodeStop(code) ==
    IF code = 1 THEN "context_full" ELSE IF code = 2 THEN "aborted" ELSE "decode_failed"

\* Mutant: the empty response is returned as it is.
ResultErr_NoMarker(resp) == ""

\* Lines 279-281 and 283: the string handed back for a response buffer.
ResultErr(resp) == IF resp = <<>> THEN ERR_NO_RESPONSE ELSE ""

\* The engine accepts a batch (decode returns 0) only if it fits the window.
EngineDecodes(code, held, batch) == code = 0 => held + batch <= DEFAULT_N_CTX

Max(a, b) == IF a > b THEN a ELSE b

\* The locals of generateNative go out of scope.
DropLocals ==
    /\ vocab' = 0 /\ n_tokens' = 0 /\ maxResponseLength' = 0
    /\ calls' = NoCalls
    /\ n_cur' = 0 /\ n_predict' = 0
    /\ response' = <<>> /\ last_30_chars' = <<>> /\ last_20_chars' = <<>>
    /\ repetition_count_30' = 0 /\ repetition_count_20' = 0
    /\ new_token_id' = "none"

\* generateNative returns: ret holds what it returned and the engine calls it
\* made.
Return(err, text, stop, ntok, c, c30, c20) ==
    /\ ret' = Ret("generate", err = "", err, text, stop, ntok, c, c30, c20)
    /\ pc' = "idle"
    /\ DropLocals

\* Lines 268-283 after the loop was left with response resp.
LeaveLoop(resp, stop, c, c30, c20) ==
    Return(ResultErr(resp), resp, stop, n_tokens,
           [c EXCEPT !.smplFree = @ + 1], c30, c20)

\* Lines 271-283: a std::exception thrown inside the try block.
Caught(ntok, c) == Return(ERR_EXCEPTION, <<>>, "exception", ntok, c, 0, 0)

\* Mutant: generate goes ahead without looking at the globals.
NotReady_Unchecked == FALSE

\* Line 84.
NotReady == ~model_loaded \/ g_ctx = 0 \/ g_model = 0

\* Lines 83-128.  n: the token count of the prompt; promptOk:
\* GetStringUTFChars returned the prompt; fault: tokens.resize throws.
GenerateBegin(n, maxLen, promptOk, fault) ==
    /\ pc = "idle"
    /\ IF NotReady
       THEN Return(ERR_NOT_LOADED, <<>>, "none", 0, NoCalls, 0, 0)
       ELSE IF ~promptOk
       THEN Return(ERR_NO_PROMPT, <<>>, "none", 0, NoCalls, 0, 0)
       ELSE LET first == 0 - n
                size == Abs(first)
                c1 == [NoCalls EXCEPT !.smplInit = 1, !.tokenize = 1]
                c2 == [c1 EXCEPT !.tokenize = 2]
            IN IF fault
               THEN Caught(size, c1)
               ELSE IF size = 0
               THEN Return(ERR_TOKENIZE, <<>>, "none", size,
                           [c2 EXCEPT !.smplFree = 1], 0, 0)
               ELSE /\ pc' = "tokenized"
                    /\ vocab' = g_model
                    /\ n_tokens' = size
                    /\ maxResponseLength' = maxLen
                    /\ calls' = c2
                    /\ ret' = NoRet
                    /\ UNCHANGED loopVars
    /\ UNCHANGED <<lifeVars, kv_used, ub, races>>

\* Lines 130-173.  code: what llama_decode returns for the prompt batch.
Prime(code) ==
    LET c == [calls EXCEPT !.clear = @ + 1, !.prime = @ + 1,
                           !.peak = Max(@, 0 + n_tokens),
                           !.codes = Append(@, code)]
        done == [c EXCEPT !.smplFree = @ + 1]
        predict == NPredict(n_tokens)
    IN
    /\ EngineDecodes(code, 0, n_tokens)
    /\ kv_used' = IF code = 0 THEN n_tokens ELSE 0
    /\ IF code # 0
       THEN Return(PrimeError(code), <<>>, "none", n_tokens, done, 0, 0)
       ELSE IF NoRoom(predict)
       THEN Return(ERR_PROMPT_TOO_LONG, <<>>, "none", n_tokens, done, 0, 0)
       ELSE /\ pc' = "loop"
            /\ n_cur' = n_tokens
            /\ n_predict' = predict
            /\ calls' = c
            /\ UNCHANGED <<vocab, n_tokens, maxResponseLength, response,
                           last_30_chars, last_20_chars, repetition_count_30,
                           repetition_count_20, new_token_id, ret>>
    /\ UNCHANGED lifeVars

\* The tokens the sampler may return within the bounds of the model.
Samplable ==
    EndTokens
    \cup (IF calls.piece - calls.bad < MaxPieces THEN TextTokens ELSE {})
    \cup (IF calls.bad < MaxBad THEN BadTokens ELSE {})

\* Lines 175-236.  tok: what llama_sampler_sample returns; fault: the append
\* to the response throws.
LoopSample(tok, fault) ==
    /\ IF ~LoopContinues(n_cur, n_tokens, n_predict)
       THEN LeaveLoop(response, "budget", calls,
                      repetition_count_30, repetition_count_20)
       ELSE LET c == [calls EXCEPT !.sample = @ + 1] IN
            IF tok \in EndTokens
            THEN LeaveLoop(response, "eos", c,
                           repetition_count_30, repetition_count_20)
            ELSE LET n_chars == llama_token_to_piece(tok)
                     cp == [c EXCEPT !.piece = @ + 1]
                 IN IF PieceFits(n_chars)
                    THEN LET resp == response \o Piece(tok)
                             g == RepetitionGuard(resp, last_30_chars, last_20_chars,
                                      repetition_count_30, repetition_count_20)
                         IN IF fault
                            THEN Caught(n_tokens, cp)
                            ELSE IF g.stop # "none"
                            THEN LeaveLoop(resp, g.stop, cp, g.c30, g.c20)
                            ELSE /\ pc' = "decode"
                                 /\ response' = resp
                                 /\ last_30_chars' = g.l30
                                 /\ last_20_chars' = g.l20
                                 /\ repetition_count_30' = g.c30
                                 /\ repetition_count_20' = g.c20
                                 /\ new_token_id' = tok
                                 /\ calls' = cp
                                 /\ UNCHANGED <<vocab, n_tokens, maxResponseLength,
                                                n_cur, n_predict, ret>>
                    ELSE /\ pc' = "decode"
                         /\ new_token_id' = tok
                         /\ calls' = [cp EXCEPT !.bad = @ + 1]
                         /\ UNCHANGED <<vocab, n_tokens, maxResponseLength, n_cur,
                                        n_predict, response, last_30_chars,
                                        last_20_chars, repetition_count_30,
                                        repetition_count_20, ret>>
    /\ UNCHANGED <<lifeVars, kv_used>>

\* Lines 238-266.  code: what llama_decode returns for the one-token batch.
LoopDecode(code) ==
    LET c == [calls EXCEPT !.decode = @ + 1, !.peak = Max(@, kv_used + 1),
                           !.codes = Append(@, code)]
        ca == [c EXCEPT !.accept = @ + 1]
    IN
    /\ EngineDecodes(code, kv_used, 1)
    /\ kv_used' = IF code = 0 THEN kv_used + 1 ELSE kv_used
    /\ IF code # 0
       THEN LeaveLoop(response, DecodeStop(code), c,
                      repetition_count_30, repetition_count_20)
       ELSE IF OverLength(response)
       THEN LeaveLoop(response, "length", ca,
                      repetition_count_30, repetition_count_20)
       ELSE /\ pc' = "loop"
            /\ n_cur' = n_cur + 1
            /\ calls' = ca
            /\ UNCHANGED <<vocab, n_tokens, maxResponseLength, n_predict, response,
                           last_30_chars, last_20_chars, repetition_count_30,
                           repetition_count_20, new_token_id, ret>>
    /\ UNCHANGED lifeVars

\* The handles a running generate passes to the engine: g_ctx as it is now
\* and the vocab of the model read at line 110.
HandlesLive == g_ctx # 0 /\ vocab # 0 /\ modelFreed[vocab] = 0

\* The process dies inside the engine: nothing returns and nothing runs after.
Crash ==
    /\ pc' = "crashed"
    /\ DropLocals
    /\ UNCHANGED <<lifeVars, kv_used, ret>>

\* A step of generate that calls the engine.  With a dead handle the call is
\* undefined: the process dies or the step goes on as if nothing happened.
EngineStep(A) ==
    IF HandlesLive
    THEN A /\ ub' = ub
    ELSE /\ ub' = TRUE
         /\ \E dies \in BOOLEAN : IF dies THEN Crash ELSE A

Generate ==
    \E n \in PromptLens, maxLen \in MaxRespInputs, promptOk, fault \in BOOLEAN :
        GenerateBegin(n, maxLen, promptOk, fault)

PrimeStep ==
    /\ pc = "tokenized"
    /\ \E code \in DecodeCodes : EngineStep(Prime(code))
    /\ UNCHANGED races

SampleStep ==
    /\ pc = "loop"
    /\ \E tok \in Samplable, fault \in BOOLEAN : EngineStep(LoopSample(tok, fault))
    /\ UNCHANGED races

DecodeStep ==
    /\ pc = "decode"
    /\ \E code \in DecodeCodes : EngineStep(LoopDecode(code))
    /\ UNCHANGED races

\* The second caller: load and unload while the first caller's generate is in
\* flight.  ret keeps to the first caller.
ConcurrentLoad ==
    /\ pc \in {"tokenized", "loop", "decode"}
    /\ races < MaxRaces
    /\ races' = races + 1
    /\ \E pathOk, modelOk, ctxOk \in BOOLEAN : LoadModel(pathOk, modelOk, ctxOk)
    /\ UNCHANGED <<sessVars, ret, ub>>

ConcurrentUnload ==
    /\ pc \in {"tokenized", "loop", "decode"}
    /\ races < MaxRaces
    /\ races' = races + 1
    /\ UnloadModel
    /\ UNCHANGED <<sessVars, ret, ub>>

Next == Load \/ Unload \/ Generate \/ PrimeStep \/ SampleStep \/ DecodeStep

Spec == Init /\ [][Next]_vars

NextConc == Next \/ ConcurrentLoad \/ ConcurrentUnload

SpecConc == Init /\ [][NextConc]_vars

\* =================================================================== claims
\* A generate call of the single caller has returned and got past the
\* tokenizer without a fault.
Returned == ret.op = "generate" /\ ret.stop # "exception"

DecodeStops == {"context_full", "aborted", "decode_failed"}

\* C1: a generate call whose prompt has at least capacity - 10 tokens returns
\* the prompt-too-long error and has made no decode call, neither the priming
\* decode nor a per-token decode.
C1_PromptTooLongBeforeDecode ==
    (Returned /\ ret.ntok + SAFETY_MARGIN >= DEFAULT_N_CTX)
        => /\ ret.err = ERR_PROMPT_TOO_LONG
           /\ ret.calls.prime = 0
           /\ ret.calls.decode = 0

\* C2: the context never holds more tokens than its capacity, and no decode
\* call, priming or per-token, asks it to: the tokens held plus the batch
\* submitted stay within the capacity for every decode call of a session.
C2_DecodeWithinCapacity ==
    /\ kv_used <= DEFAULT_N_CTX
    /\ calls.peak <= DEFAULT_N_CTX
    /\ ret.calls.peak <= DEFAULT_N_CTX

\* C3: with two callers, no load or unload runs while a generate is in
\* flight, and no engine call of a generate gets a handle that a load or an
\* unload has released.
C3_MutuallyExclusive == races = 0 /\ ~ub

\* C4: over any sequence of loads and unloads every model and every context
\* the engine created is released exactly once unless it is the live one (no
\* leak, no double free); a load releases the prior context, then the prior
\* model, before it creates the new model; an unload with nothing loaded
\* releases nothing and changes nothing.
C4_ReleasedOnce ==
    /\ \A h \in 1..MaxLoads :
          /\ modelFreed[h] = IF h <= modelsCreated /\ h # g_model THEN 1 ELSE 0
          /\ ctxFreed[h] = IF h <= ctxsCreated /\ h # g_ctx THEN 1 ELSE 0
    /\ \A i, j \in DOMAIN lifeLog :
          /\ (/\ lifeLog[i].call = "llama_free"
              /\ lifeLog[j].call \in {"llama_model_free", "llama_model_load_from_file"})
                => i < j
          /\ (/\ lifeLog[i].call = "llama_model_free"
              /\ lifeLog[j].call = "llama_model_load_from_file"
              /\ lifeLog[i].h # lifeLog[j].h)
                => i < j

C4_UnloadOfNothing ==
    (pc = "idle" /\ g_model = 0 /\ g_ctx = 0 /\ ret'.op = "unload")
        => /\ lifeLog' = <<>>
           /\ UNCHANGED <<g_model, g_ctx, model_loaded, modelsCreated, ctxsCreated,
                          modelFreed, ctxFreed>>

\* C4: every handle is released exactly once and in order (state part), and
\* an unload of nothing releases and changes nothing (step part).
C4_ExactlyOnceRelease == []C4_ReleasedOnce /\ [][C4_UnloadOfNothing]_vars

\* A load on top of a loaded model: it released context 1 and model 1 and
\* then created model 2 and context 2.
C4_Witness ==
    /\ ret.op = "load" /\ g_model = 2 /\ g_ctx = 2
    /\ Len(lifeLog) = 4
    /\ modelFreed[1] = 1 /\ ctxFreed[1] = 1

\* The latest load did not get a context out of the engine.
LoadFailed ==
    /\ ret.op = "load"
    /\ \A i \in DOMAIN lifeLog :
          ~(lifeLog[i].call = "llama_init_from_model" /\ lifeLog[i].h # 0)

\* C5: the ready flag implies a live model and a live context, a live context
\* implies a live model, and a load that fails at any step returns failure and
\* leaves no model, no context and ready = false.
C5_ReadyMeansBothLive ==
    /\ model_loaded => (g_model # 0 /\ g_ctx # 0)
    /\ g_ctx # 0 => (g_model # 0 /\ ctxFreed[g_ctx] = 0)
    /\ g_model # 0 => modelFreed[g_model] = 0
    /\ LoadFailed => (~ret.ok /\ g_model = 0 /\ g_ctx = 0 /\ ~model_loaded)
    /\ (ret.op = "load" /\ ~LoadFailed) => (ret.ok /\ model_loaded)

\* A load that failed at context creation on top of a loaded model.
C5_Witness ==
    /\ LoadFailed
    /\ Len(lifeLog) = 5
    /\ lifeLog[1].call = "llama_free"
    /\ lifeLog[4] = [call |-> "llama_init_from_model", h |-> 0]

\* C6: in a state where no model is ready, generate returns the
\* model-not-loaded error, makes no engine call and starts no session, and
\* leaves the globals and the engine's handles as they were.
C6_NotLoadedStep ==
    (pc = "idle" /\ (~model_loaded \/ g_ctx = 0 \/ g_model = 0))
        => /\ pc' = "idle"
           /\ ret'.op = "generate"
                => /\ ret'.err = ERR_NOT_LOADED
                   /\ ret'.text = <<>>
                   /\ ret'.calls = NoCalls
                   /\ UNCHANGED <<lifeVars, kv_used>>

\* C6: every step taken while no model is ready satisfies C6_NotLoadedStep.
C6_NotLoadedRejected == [][C6_NotLoadedStep]_vars

\* generate was refused after a teardown released a model.
C6_Witness ==
    /\ ret.op = "generate" /\ ret.err = ERR_NOT_LOADED
    /\ lifeLog # <<>>
    /\ lifeLog[Len(lifeLog)].call = "llama_model_free"
    /\ g_model = 0 /\ g_ctx = 0 /\ ~model_loaded

\* C7: a priming decode that returns 1 ends the session with the context-full
\* error, any other non-zero code with the evaluation-failed error; no token
\* is sampled and the generation loop is not entered.
C7_PrimingFailureClassified ==
    /\ (ret.op = "generate" /\ ret.calls.prime = 1 /\ ret.calls.codes[1] # 0)
          => /\ ret.err = IF ret.calls.codes[1] = 1
                          THEN ERR_CONTEXT_FULL ELSE ERR_EVAL_PROMPT
             /\ ret.text = <<>>
             /\ ret.calls.sample = 0 /\ ret.calls.decode = 0
             /\ ret.calls.piece = 0 /\ ret.calls.accept = 0
    /\ pc \in {"loop", "decode"} => (calls.prime = 1 /\ calls.codes[1] = 0)

C7_Witness ==
    /\ ret.op = "generate" /\ ret.calls.codes = <<1>>
    /\ ret.err = ERR_CONTEXT_FULL

\* C8 as claimed: a per-token decode that fails ends the session with the
\* accumulated response as the returned text, never with an error and no text.
C8_DecodeFailureReturnsText ==
    (Returned /\ ret.stop \in DecodeStops) => (ret.err = "" /\ ret.text # <<>>)

\* C8 as amended: a per-token decode that returns a non-zero code, in any
\* iteration, ends the session through the normal return path with the
\* response accumulated so far; the returned string is that response when it
\* is not empty and the no-response marker when nothing was accumulated.
C8_DecodeFailureStep ==
    /\ (pc = "decode" /\ pc' = "loop")
          => calls'.codes[Len(calls'.codes)] = 0
    /\ (pc = "decode" /\ pc' = "idle"
        /\ ret'.calls.codes[Len(ret'.calls.codes)] # 0)
          => /\ ret'.stop \in DecodeStops
             /\ ret'.text = response
             /\ ret'.err = IF response = <<>> THEN ERR_NO_RESPONSE ELSE ""
             /\ ret'.calls.accept = calls.accept

\* C8 as amended, over every step of the single caller.
C8_DecodeFailureGraceful == [][C8_DecodeFailureStep]_vars

\* The first per-token decode failed and the text of its token is returned.
C8_Witness ==
    /\ Returned /\ ret.stop \in DecodeStops
    /\ ret.calls.decode = 1
    /\ ret.text # <<>> /\ ret.err = ""

\* The response as a step of the loop leaves it: in the buffer when the loop
\* goes on, in the returned text when the step ends the session.
NewResponse == IF pc' = "decode" THEN response' ELSE ret'.text

\* A step of the loop that appended a fragment to the response.
Appended == pc = "loop" /\ Len(NewResponse) > Len(response)

\* C9 as claimed: an append whose trailing 30 characters equal the trailing 30
\* characters after the previous append stops the generation.
C9_StopsOnFirstRepeatStep ==
    (/\ Appended
     /\ Len(NewResponse) >= WINDOW_30
     /\ Suffix(NewResponse, WINDOW_30) = last_30_chars)
        => pc' = "idle"

\* C9 as claimed, over every step of the single caller.
C9_StopsOnFirstRepeat == [][C9_StopsOnFirstRepeatStep]_vars

\* C9 as amended: the 30-character window stops the generation exactly at the
\* second consecutive append whose trailing 30 characters equal those after
\* the append before it (the same suffix three times in a row, counter = 2);
\* the first such append only sets the counter to 1.
C9_StopsOnSecondRepeatStep ==
    (Appended /\ Len(NewResponse) >= WINDOW_30)
        => /\ (pc' = "idle" /\ ret'.stop = "rep30")
                <=> (/\ Suffix(NewResponse, WINDOW_30) = last_30_chars
                     /\ repetition_count_30 = 1)
           /\ (/\ Suffix(NewResponse, WINDOW_30) = last_30_chars
               /\ repetition_count_30 = 0
               /\ pc' = "decode")
                => repetition_count_30' = 1

\* C9 as amended, over every step of the single caller.
C9_StopsOnSecondRepeat == [][C9_StopsOnSecondRepeatStep]_vars

C9_Witness ==
    /\ Returned /\ ret.stop = "rep30" /\ ret.rep30 = 2
    /\ ret.calls.piece = 3

\* The positions at which pat occurs in s.
Occurrences(s, pat) ==
    {i \in 1..(Len(s) - Len(pat) + 1) :
        s[i] = pat[1] /\ SubSeq(s, i, i + Len(pat) - 1) = pat}

\* How many of the occurrences occ a left-to-right scan counts from position
\* from on, when it resumes width characters behind the start of each one it
\* counts.
RECURSIVE ScanCount(_, _, _)
ScanCount(occ, from, width) ==
    LET ahead == {i \in occ : i >= from}
    IN IF ahead = {} THEN 0
       ELSE 1 + ScanCount(occ, Min(ahead) + width, width)

Trailing15Count(s) ==
    ScanCount(Occurrences(s, Suffix(s, PHRASE_LENGTH)), 1, PHRASE_LENGTH)

\* C10: after an append that neither window check stopped, the phrase check
\* stops the generation if and only if the response is longer than 100
\* characters and its trailing 15 characters occur more than 4 times in it,
\* counted by the resuming scan; it never fires at 100 characters or fewer.
C10_PhraseCheckStep ==
    (Appended /\ ~(pc' = "idle" /\ ret'.stop \in {"rep30", "rep20", "exception"}))
        => ((pc' = "idle" /\ ret'.stop = "phrase")
                <=> (/\ Len(NewResponse) > PHRASE_MIN_LENGTH
                     /\ Trailing15Count(NewResponse) > MAX_REPEATED_PHRASES))

\* C10: every appending step satisfies C10_PhraseCheckStep.
C10_PhraseCheck == [][C10_PhraseCheckStep]_vars

\* The stop at the append that brought the fifth occurrence.
C10_Witness ==
    /\ Returned /\ ret.stop = "phrase"
    /\ Trailing15Count(ret.text) = 5
    /\ ret.calls.piece = 2

\* The response-length limit of the running session: the caller's value when
\* it is positive, 800 otherwise.
LengthCap ==
    IF maxResponseLength >= 1 THEN maxResponseLength ELSE DEFAULT_MAX_RESPONSE_LENGTH

\* C11: the step that follows an append which took the response over the
\* limit ends the session: nothing more is sampled and nothing more is
\* appended, whatever is left of the token budget.
C11_OverLengthStep ==
    (pc = "decode" /\ Len(response) > LengthCap)
        => /\ pc' = "idle"
           /\ ret'.text = response
           /\ ret'.calls.sample = calls.sample
           /\ ret'.calls.piece = calls.piece

\* C11: a token is sampled only while the response is no longer than the
\* limit, and every step satisfies C11_OverLengthStep.
C11_StopsOverLength ==
    /\ [](pc = "loop" => Len(response) <= LengthCap)
    /\ [][C11_OverLengthStep]_vars

\* A session with the default limit stopped by it with budget to spare.
C11_Witness ==
    /\ Returned /\ ret.stop = "length"
    /\ Len(ret.text) > DEFAULT_MAX_RESPONSE_LENGTH
    /\ ret.calls.sample < DEFAULT_N_PREDICT

\* C12: the string a generate call returns is never empty; a session that
\* went through the loop and ended with an empty response buffer returns the
\* no-response marker; when the first sampled token is an end token the
\* marker is returned and no per-token decode was made.
C12_NeverEmpty ==
    /\ ret.op = "generate" => (ret.err # "" \/ ret.text # <<>>)
    /\ (Returned /\ ret.calls.smplFree = 1 /\ ret.calls.prime = 1
            /\ ret.calls.codes[1] = 0 /\ ret.ntok + SAFETY_MARGIN < DEFAULT_N_CTX
            /\ ret.text = <<>>)
          => ret.err = ERR_NO_RESPONSE
    /\ (Returned /\ ret.stop = "eos" /\ ret.calls.sample = 1)
          => /\ ret.err = ERR_NO_RESPONSE
             /\ ret.text = <<>>
             /\ ret.calls.decode = 0 /\ ret.calls.accept = 0

\* The engine's first sampled token was end-of-sequence.
C12_Witness ==
    /\ Returned /\ ret.stop = "eos" /\ ret.calls.sample = 1
    /\ ret.err = ERR_NO_RESPONSE /\ ret.calls.decode = 0

\* The token budget of a session whose prompt has n tokens.
Budget(n) ==
    IF n + SAFETY_MARGIN + DEFAULT_N_PREDICT <= DEFAULT_N_CTX
    THEN DEFAULT_N_PREDICT
    ELSE DEFAULT_N_CTX - n - SAFETY_MARGIN

InLoop == pc \in {"loop", "decode"}

\* What is left of the session: two steps for each token still in the budget,
\* one more while the iteration has not sampled yet.
Remaining(p, cur, n) == 2 * (n + Budget(n) - cur) + (IF p = "loop" THEN 1 ELSE 0)

\* C13, the state part: inside the loop the cursor is the prompt length plus
\* the tokens committed, it never passes prompt length + budget and is below it
\* while an iteration runs, and the per-token decodes made never exceed the
\* budget; no step of a running generate is blocked: the engine call it waits
\* for has an outcome.
C13_Bounded ==
    /\ InLoop => /\ n_cur = n_tokens + calls.accept
                 /\ n_cur <= n_tokens + Budget(n_tokens)
                 /\ calls.decode <= Budget(n_tokens)
                 /\ calls.decode = calls.accept
    /\ pc = "decode" => n_cur < n_tokens + Budget(n_tokens)
    /\ (Returned /\ ret.calls.decode > 0) => ret.calls.decode <= Budget(ret.ntok)
    /\ pc = "tokenized" => \E code \in DecodeCodes : EngineDecodes(code, 0, n_tokens)
    /\ pc = "loop" => Samplable # {}
    /\ pc = "decode" => \E code \in DecodeCodes : EngineDecodes(code, kv_used, 1)

\* C13, the step part: a step of the loop either ends the session or brings
\* it strictly closer to the end of the budget; the cursor moves by exactly
\* one when an iteration completes and not otherwise; with the budget used up
\* nothing more is sampled.
C13_LoopStep ==
    /\ (pc = "tokenized") => pc' \in {"loop", "idle"}
    /\ (InLoop /\ pc' # "idle")
          => /\ InLoop'
             /\ Remaining(pc', n_cur', n_tokens') < Remaining(pc, n_cur, n_tokens)
             /\ Remaining(pc', n_cur', n_tokens') >= 0
    /\ (pc = "decode" /\ pc' = "loop") => n_cur' = n_cur + 1
    /\ (pc = "loop" /\ pc' = "decode") => n_cur' = n_cur
    /\ (pc = "loop" /\ n_cur >= n_tokens + Budget(n_tokens))
          => (pc' = "idle" /\ ret'.calls.sample = calls.sample)

\* C13: every generate call terminates within its token budget.
C13_TerminatesWithinBudget == []C13_Bounded /\ [][C13_LoopStep]_vars

\* A session that used up a budget of two tokens.
C13_Witness ==
    /\ Returned /\ ret.stop = "budget"
    /\ ret.ntok = 2036 /\ ret.calls.decode = 2 /\ ret.calls.sample = 2

\* How many of the per-token decodes recorded in codes returned 0; the first
\* entry of codes is the priming decode.
Succeeded(codes) == Cardinality({i \in 2..Len(codes) : codes[i] = 0})

\* The session was ended by the token it had sampled last, not by the budget.
EndedByToken == Returned /\ ret.calls.sample > 0 /\ ret.stop # "budget"

\* C14: the cache is cleared exactly once, before the priming decode; the
\* priming decode has succeeded before the first sample; each sample precedes
\* the decode of its token; each token whose decode succeeded is accepted
\* exactly once, after its decode and before the next sample; a token that
\* ended the session is never accepted.
C14_StrictOrdering ==
    /\ pc = "tokenized" => (calls.clear = 0 /\ calls.prime = 0 /\ calls.sample = 0)
    /\ InLoop => (calls.clear = 1 /\ calls.prime = 1 /\ calls.codes[1] = 0)
    /\ pc = "loop" => (calls.decode = calls.sample /\ calls.accept = calls.decode)
    /\ pc = "decode" => (calls.decode + 1 = calls.sample /\ calls.accept = calls.decode)
    /\ Returned => /\ ret.calls.clear = ret.calls.prime /\ ret.calls.clear <= 1
                   /\ ret.calls.accept = Succeeded(ret.calls.codes)
                   /\ ret.calls.decode <= ret.calls.sample
    /\ (Returned /\ ret.calls.sample > 0)
          => (ret.calls.clear = 1 /\ ret.calls.codes[1] = 0)
    /\ EndedByToken => ret.calls.accept = ret.calls.sample - 1

\* C15: a token whose text took the response over the limit is not submitted
\* to decode: the session ends at the length check, with the decode and accept
\* counts and the cursor as they were before the token was sampled.
C15_LengthCheckBeforeDecodeStep ==
    /\ (pc = "loop" /\ pc' = "decode") => Len(response') <= LengthCap
    /\ (pc' = "idle" /\ ret'.stop = "length")
          => /\ pc = "loop"
             /\ ret'.calls.decode = calls.decode
             /\ ret'.calls.accept = calls.accept

\* C15: every step satisfies C15_LengthCheckBeforeDecodeStep.
C15_LengthCheckBeforeDecode == [][C15_LengthCheckBeforeDecodeStep]_vars

\* The step under way appended text and was not cut short by a fault.
AppendStep == Appended /\ ~(pc' = "idle" /\ ret'.stop = "exception")

\* The guard's counters as the step leaves them.
Count30After == IF pc' = "idle" THEN ret'.rep30 ELSE repetition_count_30'
Count20After == IF pc' = "idle" THEN ret'.rep20 ELSE repetition_count_20'

\* The new trailing window of k characters equals the one remembered in prev.
SameWindow(k, prev) == Len(NewResponse) >= k /\ Suffix(NewResponse, k) = prev

StoppedBy(reason) == pc' = "idle" /\ ret'.stop = reason

\* C16, one append: the 30-window counter goes up by one when the new
\* trailing 30 characters equal the previous ones and back to 0 otherwise, and
\* the session stops there exactly when it reaches 2; if it did not, the
\* 20-window counter is kept the same way and stops the session exactly when
\* it reaches 3; a step stopped by the 30-window check leaves the 20-window
\* counter untouched.
C16_CountersStep ==
    AppendStep =>
       /\ Count30After = IF SameWindow(WINDOW_30, last_30_chars)
                         THEN repetition_count_30 + 1 ELSE 0
       /\ StoppedBy("rep30") <=> Count30After = 2
       /\ StoppedBy("rep30") => Count20After = repetition_count_20
       /\ ~StoppedBy("rep30") =>
             /\ Count20After = IF SameWindow(WINDOW_20, last_20_chars)
                               THEN repetition_count_20 + 1 ELSE 0
             /\ StoppedBy("rep20") <=> Count20After = 3
       /\ (pc' = "decode" /\ Len(response') >= WINDOW_30)
             => (/\ last_30_chars' = Suffix(response', WINDOW_30)
                 /\ last_20_chars' = Suffix(response', WINDOW_20))

\* C16: every append keeps and applies the two window counters as
\* C16_CountersStep says.
C16_WindowCounters == [][C16_CountersStep]_vars

\* The 20-window check stopped a session the 30-window check had let pass.
C16_Witness ==
    /\ Returned /\ ret.stop = "rep20"
    /\ ret.rep20 = 3 /\ ret.rep30 < 2

\* The step under way sampled a token that is not an end token and was not
\* cut short by a fault.
PieceStep ==
    /\ pc = "loop"
    /\ (IF pc' = "idle" THEN ret'.calls.piece ELSE calls'.piece) = calls.piece + 1
    /\ ~(pc' = "idle" /\ ret'.stop = "exception")

\* Such a step whose token failed conversion: nothing was appended.
SkipStep == PieceStep /\ NewResponse = response

\* What each check finds on the response as the step leaves it.
Trigger30 ==
    SameWindow(WINDOW_30, last_30_chars) /\ repetition_count_30 + 1 >= MAX_REPETITION
Trigger20 ==
    SameWindow(WINDOW_20, last_20_chars) /\ repetition_count_20 + 1 >= MAX_REPETITION + 1
Trigger15 ==
    /\ Len(NewResponse) > PHRASE_MIN_LENGTH
    /\ Trailing15Count(NewResponse) > MAX_REPEATED_PHRASES

\* C17 as stated: the checks run on every step, so also on a step that
\* appended nothing, where the trailing windows equal the remembered ones and
\* the counters must go up.
C17_ChecksOnEveryStepStep ==
    PieceStep =>
       /\ Count30After = IF SameWindow(WINDOW_30, last_30_chars)
                         THEN repetition_count_30 + 1 ELSE 0
       /\ StoppedBy("rep30") <=> Trigger30
       /\ StoppedBy("rep20") <=> (~Trigger30 /\ Trigger20)
       /\ StoppedBy("phrase") <=> (~Trigger30 /\ ~Trigger20 /\ Trigger15)

\* C17 as stated, for every step.
C17_ChecksOnEveryStep == [][C17_ChecksOnEveryStepStep]_vars

\* C17 amended: on a step that appended text the three checks run in the
\* order 30-window, 20-window, phrase, and the first that triggers ends the
\* session; a step whose token failed conversion runs none of them: it never
\* stops for repetition and leaves windows and counters as they were.
C17_ChecksOnAppendStep ==
    /\ AppendStep =>
          /\ StoppedBy("rep30") <=> Trigger30
          /\ StoppedBy("rep20") <=> (~Trigger30 /\ Trigger20)
          /\ StoppedBy("phrase") <=> (~Trigger30 /\ ~Trigger20 /\ Trigger15)
          /\ pc' = "decode" <=> (~Trigger30 /\ ~Trigger20 /\ ~Trigger15)
    /\ SkipStep =>
          /\ pc' = "decode"
          /\ UNCHANGED <<last_30_chars, last_20_chars,
                         repetition_count_30, repetition_count_20>>

\* C17 amended, for every step.
C17_ChecksOnAppend == [][C17_ChecksOnAppendStep]_vars

\* A token failed conversion after a repeat had been counted: the checks, had
\* they run, would have stopped the session.
C17_Witness ==
    /\ pc = "decode" /\ llama_token_to_piece(new_token_id) <= 0
    /\ Len(response) >= WINDOW_30
    /\ repetition_count_30 = 1 /\ last_30_chars = Suffix(response, WINDOW_30)

\* The engine could not put the text of tok into the 256-byte buffer, or the
\* text is empty.
ConversionFails(tok) ==
    llama_token_to_piece(tok) <= 0 \/ llama_token_to_piece(tok) >= BUF_SIZE

CodesAfter == IF pc' = "idle" THEN ret'.calls.codes ELSE calls'.codes
DecodesAfter == IF pc' = "idle" THEN ret'.calls.decode ELSE calls'.decode

\* C18, one step: a token whose conversion fails leaves the response as it
\* was and goes on to its decode; a step that ends the session after the
\* conversion has appended text; the decode of such a token is made, and when
\* it succeeds the token is accepted and counted against the budget.
C18_SkippedTokenStep ==
    /\ (pc = "loop" /\ pc' = "decode" /\ ConversionFails(new_token_id'))
          => (response' = response /\ n_cur' = n_cur)
    /\ (PieceStep /\ pc' = "idle") => Len(ret'.text) > Len(response)
    /\ (pc = "decode" /\ ConversionFails(new_token_id))
          => /\ DecodesAfter = calls.decode + 1
             /\ CodesAfter[Len(CodesAfter)] = 0
                   => /\ pc' = "loop"
                      /\ response' = response
                      /\ calls'.accept = calls.accept + 1
                      /\ n_cur' = n_cur + 1

\* C18: every step satisfies C18_SkippedTokenStep.
C18_SkippedTokenContinues == [][C18_SkippedTokenStep]_vars

\* A token whose text filled the whole buffer was skipped, decoded, accepted
\* and counted, and the loop goes on.
C18_Witness ==
    /\ pc = "loop" /\ new_token_id = "full"
    /\ calls.bad = 1 /\ calls.accept = calls.sample
    /\ n_cur = n_tokens + calls.accept
    /\ Len(response) > 0

\* The last generate call got as far as creating the sampler chain.
PastChecks == ret.op = "generate" /\ ret.err \notin {ERR_NOT_LOADED, ERR_NO_PROMPT}

\* C19: a generate call that got past the entry checks has created one
\* sampler chain and released it once, on whichever path it returned; while
\* the call runs the chain it uses has not been released.
C19_SamplerReleasedOnce ==
    /\ PastChecks => (ret.calls.smplInit = 1 /\ ret.calls.smplFree = 1)
    /\ pc \in {"tokenized", "loop", "decode"}
          => (calls.smplInit = 1 /\ calls.smplFree = 0)

\* While the loop runs the 20-window counter is at least the 30-window one.
CountersOrdered == InLoop => repetition_count_20 >= repetition_count_30

\* C20 as stated: the counters are ordered, and the 20-window stop fires only
\* on a step whose trailing 30 characters differ from the previous ones while
\* the trailing 20 are equal.
C20_StopOnlyWhenThirtyDiffers ==
    /\ []CountersOrdered
    /\ [][(AppendStep /\ StoppedBy("rep20"))
             => (/\ ~SameWindow(WINDOW_30, last_30_chars)
                 /\ SameWindow(WINDOW_20, last_20_chars))]_vars

\* C20 amended: the counters are ordered, and the 20-window stop fires only
\* on a step whose trailing 20 characters are equal for the third time in a
\* row and whose trailing 30 characters either differ from the previous ones
\* or equal them for the first time in a row.
C20_StopOnlyBelowThirtyLimit ==
    /\ []CountersOrdered
    /\ [][(AppendStep /\ StoppedBy("rep20"))
             => (/\ SameWindow(WINDOW_20, last_20_chars)
                 /\ repetition_count_20 = 2
                 /\ SameWindow(WINDOW_30, last_30_chars) => repetition_count_30 = 0)]_vars

\* The 20-window check stopped a session on a step whose trailing 30
\* characters equal the previous ones.
C20_Witness ==
    /\ Returned /\ ret.stop = "rep20"
    /\ ret.rep20 = 3 /\ ret.rep30 = 1

====
